---- MODULE Spec2Model ----
(***************************************************************************)
(* Model of the TFTP transfer worker of rs-tftpd (src/worker.rs).          *)
(*                                                                         *)
(* Spec     : one Worker (Worker::send or Worker::receive) against an      *)
(*            arbitrary peer: every receive on the socket returns any      *)
(*            packet or fails, every send and file operation may fail.     *)
(* SpecPair : the receive loop of a Worker paired with a peer that runs    *)
(*            the send loop, over a FIFO channel that may lose             *)
(*            acknowledgments (at most MaxLostAcks of them).               *)
(*                                                                         *)
(* Variables that the program does not hold (the log of packets sent, the  *)
(* per-block transmission counters, what was received) are observers: no   *)
(* guard of a program step reads them, except where a bound caps an        *)
(* otherwise unbounded behaviour of the environment.                       *)
(***************************************************************************)
EXTENDS Integers, Sequences, FiniteSets, TLC

(* ------------------------------ constants ------------------------------ *)

MAX_RETRIES == 6

DEFAULT_TIMEOUT_SECS == 5

DEFAULT_BLOCK_SIZE == 512

\* u16 block numbers: wrapping_add works modulo 2^16
U16 == 65536

(* -------------------------------- bounds ------------------------------- *)

\* longest local file (bytes) a Worker sends, and longest file the peer sends
MaxFileLen == 3

\* longest requested option list
MaxOpts == 1

\* largest value a requested option carries
MaxOptVal == 2

\* receives per block that the loops do not count (mismatched block numbers,
\* packets of another kind) the environment may produce
MaxMismatch == 1

\* acknowledgments the channel of SpecPair may lose
MaxLostAcks == 1

\* blocks after which the environment stops feeding a loop that would not
\* end by itself (block size 0, or a peer sending full blocks for ever)
MaxBlocks == MaxFileLen + 1

(* ------------------------------- helpers ------------------------------- *)

Min(a, b) == IF a < b THEN a ELSE b

Last(s) == s[Len(s)]

\* WrappingAdd as u16::saturating_add(1): the number stays at 65535
WrappingAdd_Saturating(n) == Min(n + 1, U16 - 1)

\* u16::wrapping_add(1)
WrappingAdd(n) == (n + 1) % U16

\* the bytes of a file of length len: byte i is i, so that every chunk of
\* the file is told apart from every other
FileContent(len) == [i \in 1..len |-> i]

\* a payload of n bytes made up by the environment
Filler(n) == [i \in 1..n |-> 0]

(* ------------------------------- packets ------------------------------- *)

Pkt(t, n, d, o, c) == [type |-> t, num |-> n, data |-> d, opts |-> o, code |-> c]

Ack(n) == Pkt("Ack", n, <<>>, <<>>, "")

Data(n, d) == Pkt("Data", n, d, <<>>, "")

OptionAck(o) == Pkt("OptionAck", 0, <<>>, o, "")

ErrorPkt(c) == Pkt("Error", 0, <<>>, <<>>, c)

\* Message::recv / Message::recv_data returned Err (timeout or I/O error)
RecvErr == Pkt("Err", 0, <<>>, <<>>, "")

OptionTypes == {"BlockSize", "TransferSize", "Timeout"}

TransferOption == [option : OptionTypes, value : 0..MaxOptVal]

OptionLists == UNION {[1..n -> TransferOption] : n \in 0..MaxOpts}

WorkSend(size) == [kind |-> "Send", size |-> size]

WorkReceive == [kind |-> "Receive", size |-> 0]

(* ---------------------------- parse_options ---------------------------- *)

DefaultWorkerOptions == [blk_size |-> DEFAULT_BLOCK_SIZE, t_size |-> 0, timeout |-> DEFAULT_TIMEOUT_SECS]

\* the value of worker_options before parse_options has run
NoWorkerOptions == [blk_size |-> 0, t_size |-> 0, timeout |-> 0]

\* the Timeout arm of parse_options without its test: no value is rejected
TimeoutInvalid_Never(value) == value < 0

\* the Timeout arm of parse_options rejects the value
TimeoutInvalid(value) == value = 0

RECURSIVE parse_from(_, _, _, _)
\* the for loop of parse_options from option i on; opts is mutated in place
parse_from(opts, work_type, wo, i) ==
    IF i > Len(opts)
    THEN [ok |-> TRUE, worker_options |-> wo, options |-> opts]
    ELSE LET value == opts[i].value
         IN  CASE opts[i].option = "BlockSize" ->
                    parse_from(opts, work_type, [wo EXCEPT !.blk_size = value], i + 1)
               [] opts[i].option = "TransferSize" ->
                    IF work_type.kind = "Send"
                    THEN parse_from([opts EXCEPT ![i].value = work_type.size], work_type, wo, i + 1)
                    ELSE parse_from(opts, work_type, [wo EXCEPT !.t_size = value], i + 1)
               [] opts[i].option = "Timeout" ->
                    IF TimeoutInvalid(value)
                    THEN [ok |-> FALSE, worker_options |-> wo, options |-> opts]
                    ELSE parse_from(opts, work_type, [wo EXCEPT !.timeout = value], i + 1)

parse_options(opts, work_type) == parse_from(opts, work_type, DefaultWorkerOptions, 1)

(* ------------------------- the loops' decisions ------------------------ *)

\* file.read(&mut chunk) on a chunk of blk_size bytes at offset pos: a regular
\* file, read in full up to its end
ReadSize(len, pos, blk_size) == Min(blk_size, len - pos)

\* LastBlock with <= written for <: a full block ends the transfer
LastBlock_FullEnds(sz, blk_size) == sz <= blk_size

\* if size < worker_options.blk_size { break }
LastBlock(sz, blk_size) == sz < blk_size

\* RetriesExhausted with > written for ==: one attempt more before giving up
RetriesExhausted_Late(cnt) == cnt > MAX_RETRIES

\* the retry limit never met
RetriesExhausted_Never(cnt) == cnt < 0

\* if retry_cnt == MAX_RETRIES { return Err(..) }
RetriesExhausted(cnt) == cnt = MAX_RETRIES

\* SendMatch without the arm for Packet::Error: a peer's Error packet is one
\* more failed attempt
SendMatch_ErrorRetried(bn, cnt, resp) ==
    CASE resp.type = "Ack" ->
            IF resp.num = bn
            THEN [ctl |-> "break", block_number |-> WrappingAdd(bn), retry_cnt |-> cnt]
            ELSE [ctl |-> "continue", block_number |-> bn, retry_cnt |-> cnt]
      [] OTHER ->
            IF cnt + 1 = MAX_RETRIES
            THEN [ctl |-> "timed_out", block_number |-> bn, retry_cnt |-> cnt + 1]
            ELSE [ctl |-> "continue", block_number |-> bn, retry_cnt |-> cnt + 1]

\* SendMatch taking every Ack for the acknowledgment of the block in flight
SendMatch_AnyAck(bn, cnt, resp) ==
    CASE resp.type = "Ack" ->
            [ctl |-> "break", block_number |-> WrappingAdd(bn), retry_cnt |-> cnt]
      [] resp.type = "Error" ->
            [ctl |-> "peer_error", block_number |-> bn, retry_cnt |-> cnt]
      [] OTHER ->
            IF RetriesExhausted(cnt + 1)
            THEN [ctl |-> "timed_out", block_number |-> bn, retry_cnt |-> cnt + 1]
            ELSE [ctl |-> "continue", block_number |-> bn, retry_cnt |-> cnt + 1]

\* SendMatch taking the Ack of an earlier block for the Ack of the block in
\* flight
SendMatch_StaleAckAdvances(bn, cnt, resp) ==
    CASE resp.type = "Ack" ->
            IF resp.num <= bn /\ resp.num > 0
            THEN [ctl |-> "break", block_number |-> WrappingAdd(bn), retry_cnt |-> cnt]
            ELSE [ctl |-> "continue", block_number |-> bn, retry_cnt |-> cnt]
      [] resp.type = "Error" ->
            [ctl |-> "peer_error", block_number |-> bn, retry_cnt |-> cnt]
      [] OTHER ->
            IF RetriesExhausted(cnt + 1)
            THEN [ctl |-> "timed_out", block_number |-> bn, retry_cnt |-> cnt + 1]
            ELSE [ctl |-> "continue", block_number |-> bn, retry_cnt |-> cnt + 1]

\* the match of send_file on what Message::recv returned
SendMatch(bn, cnt, resp) ==
    CASE resp.type = "Ack" ->
            IF resp.num = bn
            THEN [ctl |-> "break", block_number |-> WrappingAdd(bn), retry_cnt |-> cnt]
            ELSE [ctl |-> "continue", block_number |-> bn, retry_cnt |-> cnt]
      [] resp.type = "Error" ->
            [ctl |-> "peer_error", block_number |-> bn, retry_cnt |-> cnt]
      [] OTHER ->
            IF RetriesExhausted(cnt + 1)
            THEN [ctl |-> "timed_out", block_number |-> bn, retry_cnt |-> cnt + 1]
            ELSE [ctl |-> "continue", block_number |-> bn, retry_cnt |-> cnt + 1]

\* RecvMatch taking every Data packet for the next block
RecvMatch_AnyData(bn, cnt, resp) ==
    CASE resp.type = "Data" ->
            [ctl |-> "break", block_number |-> resp.num, retry_cnt |-> cnt]
      [] resp.type = "Error" ->
            [ctl |-> "peer_error", block_number |-> bn, retry_cnt |-> cnt]
      [] resp.type = "Err" ->
            IF RetriesExhausted(cnt + 1)
            THEN [ctl |-> "timed_out", block_number |-> bn, retry_cnt |-> cnt + 1]
            ELSE [ctl |-> "continue", block_number |-> bn, retry_cnt |-> cnt + 1]
      [] OTHER ->
            [ctl |-> "continue", block_number |-> bn, retry_cnt |-> cnt]

\* RecvMatch taking a repeat of the last accepted block for a new block
RecvMatch_DupAccepted(bn, cnt, resp) ==
    CASE resp.type = "Data" ->
            IF resp.num = WrappingAdd(bn) \/ (resp.num = bn /\ bn > 0)
            THEN [ctl |-> "break", block_number |-> resp.num, retry_cnt |-> cnt]
            ELSE [ctl |-> "continue", block_number |-> bn, retry_cnt |-> cnt]
      [] resp.type = "Error" ->
            [ctl |-> "peer_error", block_number |-> bn, retry_cnt |-> cnt]
      [] resp.type = "Err" ->
            IF RetriesExhausted(cnt + 1)
            THEN [ctl |-> "timed_out", block_number |-> bn, retry_cnt |-> cnt + 1]
            ELSE [ctl |-> "continue", block_number |-> bn, retry_cnt |-> cnt + 1]
      [] OTHER ->
            [ctl |-> "continue", block_number |-> bn, retry_cnt |-> cnt]

\* the match of receive_file on what Message::recv_data returned
RecvMatch(bn, cnt, resp) ==
    CASE resp.type = "Data" ->
            IF resp.num = WrappingAdd(bn)
            THEN [ctl |-> "break", block_number |-> resp.num, retry_cnt |-> cnt]
            ELSE [ctl |-> "continue", block_number |-> bn, retry_cnt |-> cnt]
      [] resp.type = "Error" ->
            [ctl |-> "peer_error", block_number |-> bn, retry_cnt |-> cnt]
      [] resp.type = "Err" ->
            IF RetriesExhausted(cnt + 1)
            THEN [ctl |-> "timed_out", block_number |-> bn, retry_cnt |-> cnt + 1]
            ELSE [ctl |-> "continue", block_number |-> bn, retry_cnt |-> cnt + 1]
      [] OTHER ->
            [ctl |-> "continue", block_number |-> bn, retry_cnt |-> cnt]

(* -------------------------------- state -------------------------------- *)

VARIABLES
    direction,       \* "Send" (Worker::send) or "Receive" (Worker::receive)
    fileOk,          \* the local file can be opened (Send) or created (Receive)
    fileLen,         \* byte length of the local file (Send)
    options,         \* the option list handed to the worker, mutated by parse_options
    pc,              \* the worker's position
    outcome,         \* "running", or how the worker's closure ended
    worker_options,  \* what parse_options returned
    block_number,
    retry_cnt,
    pos,             \* offset in the local file after the last read (Send)
    size,            \* length of the chunk read (Send) or accepted (Receive)
    written,         \* bytes written to the local file (Receive)
    sent,            \* packets the worker sent, a retransmission not repeated
    txCount,         \* transmissions of the Data block being sent
    rxCount,         \* receive attempts for the block being awaited
    blkSilent,       \* every receive for the current block failed
    allMatched,      \* every receive of the send loop returned the matching Ack
    gotError,        \* a loop received an Error packet
    hsError,         \* check_response received an Error packet
    ackMatched,      \* the send loop's last receive returned the Ack of the block sent
    peer,            \* SpecPair: the peer running the send loop
    toWorker,        \* SpecPair: packets in flight to the worker
    toPeer,          \* SpecPair: packets in flight to the peer
    acksLost,        \* SpecPair: acknowledgments lost so far
    faults           \* SpecNet: faults of the channel so far

workerVars == <<direction, fileOk, fileLen, options, pc, outcome, worker_options, block_number, retry_cnt, pos, size, written>>

observerVars == <<sent, txCount, rxCount, blkSilent, allMatched, gotError, hsError, ackMatched>>

pairVars == <<peer, toWorker, toPeer, acksLost, faults>>

vars == <<workerVars, observerVars, pairVars>>

\* the peer of Spec is the environment: it has no state
NoPeer == [pc |-> "none", outcome |-> "none", fileLen |-> 0, block_number |-> 0, retry_cnt |-> 0, pos |-> 0, size |-> 0, txCount |-> 0]

\* the local file's contents as the worker sees them
chunk == SubSeq(FileContent(fileLen), pos - size + 1, pos)

\* the log of packets sent, with a packet sent again right away not repeated
Logged(log, p) == IF log # <<>> /\ Last(log) = p THEN log ELSE Append(log, p)

Init ==
    /\ direction \in {"Send", "Receive"}
    /\ fileOk \in BOOLEAN
    /\ fileLen \in 0..MaxFileLen
    /\ (direction = "Receive" \/ ~fileOk) => fileLen = 0
    /\ options \in OptionLists
    /\ pc = "start"
    /\ outcome = "running"
    /\ worker_options = NoWorkerOptions
    /\ block_number = 0
    /\ retry_cnt = 0
    /\ pos = 0
    /\ size = 0
    /\ written = <<>>
    /\ sent = <<>>
    /\ txCount = 0
    /\ rxCount = 0
    /\ blkSilent = TRUE
    /\ allMatched = TRUE
    /\ gotError = FALSE
    /\ hsError = FALSE
    /\ ackMatched = FALSE
    /\ peer = NoPeer
    /\ toWorker = <<>>
    /\ toPeer = <<>>
    /\ acksLost = 0
    /\ faults = 0

\* the closure of Worker::send / Worker::receive returns: Err is printed
Finish(how) ==
    /\ pc' = "done"
    /\ outcome' = how

(* --------------------------- Worker: handshake ------------------------- *)

\* accept_request acknowledging a request without options with Ack(0) in
\* both directions
accept_request_AckAlways(opts, work_type) ==
    IF Len(opts) > 0 THEN <<OptionAck(opts)>> ELSE <<Ack(0)>>

\* what accept_request sends: the packet, or none
accept_request(opts, work_type) ==
    IF Len(opts) > 0 THEN <<OptionAck(opts)>>
    ELSE IF work_type.kind = "Receive" THEN <<Ack(0)>>
    ELSE <<>>

\* Worker::send lines 43-45, Worker::receive lines 66-68:
\* setup_socket, the work type, accept_request
Accept ==
    /\ pc = "start"
    /\ \E io \in {"ok", "setup_err", "send_err"} :
          LET work_type == IF direction = "Send" THEN WorkSend(fileLen) ELSE WorkReceive
              out == accept_request(options, work_type)
          IN  \/ /\ io = "setup_err"
                 /\ Finish("io_error")
                 /\ UNCHANGED sent
              \/ /\ io # "setup_err"
                 /\ direction = "Send"
                 /\ ~fileOk
                 /\ Finish("panic")
                 /\ UNCHANGED sent
              \/ /\ io = "send_err"
                 /\ direction = "Send" => fileOk
                 /\ out # <<>>
                 /\ Finish("io_error")
                 /\ UNCHANGED sent
              \/ /\ io = "ok"
                 /\ direction = "Send" => fileOk
                 /\ sent' = sent \o out
                 /\ pc' = IF direction = "Send" THEN "check" ELSE "open"
                 /\ UNCHANGED outcome
    /\ UNCHANGED <<direction, fileOk, fileLen, options, worker_options, block_number, retry_cnt, pos, size, written>>
    /\ UNCHANGED <<txCount, rxCount, blkSilent, allMatched, gotError, hsError, ackMatched>>
    /\ UNCHANGED pairVars

\* check_response replies to this packet with an Error packet
BadOack(resp) == resp.type = "Ack" /\ resp.num # 0

\* how check_response leaves the worker after resp: "proceed" is Ok(())
check_response(resp) ==
    IF resp.type = "Err" THEN "io_error" ELSE "proceed"

\* packets a peer may make Message::recv return to the sending worker
PeerBlockNums == 0..(MaxBlocks + 1)

SendResponses == {RecvErr, ErrorPkt("FileNotFound"), OptionAck(<<>>), Data(1, <<>>)} \cup {Ack(n) : n \in PeerBlockNums}

\* Worker::send line 46: check_response
CheckResponse ==
    /\ pc = "check"
    /\ \E resp \in SendResponses, io \in {"ok", "send_err"} :
          \/ /\ io = "ok"
             /\ check_response(resp) = "io_error"
             /\ Finish("io_error")
             /\ UNCHANGED <<sent, hsError>>
          \/ /\ io = "send_err"
             /\ check_response(resp) = "proceed"
             /\ BadOack(resp)
             /\ Finish("io_error")
             /\ UNCHANGED <<sent, hsError>>
          \/ /\ io = "ok"
             /\ check_response(resp) = "proceed"
             /\ sent' = IF BadOack(resp) THEN Append(sent, ErrorPkt("IllegalOperation")) ELSE sent
             /\ hsError' = (resp.type = "Error")
             /\ pc' = "open"
             /\ UNCHANGED outcome
    /\ UNCHANGED <<direction, fileOk, fileLen, options, worker_options, block_number, retry_cnt, pos, size, written>>
    /\ UNCHANGED <<txCount, rxCount, blkSilent, allMatched, gotError, ackMatched>>
    /\ UNCHANGED pairVars

(* ----------------------- Worker: opening the file ---------------------- *)

\* send_file lines 86-89, receive_file lines 131-134:
\* File::open / File::create (unwrap), parse_options, the first block number
OpenFile ==
    /\ pc = "open"
    /\ LET work_type == IF direction = "Send" THEN WorkSend(fileLen) ELSE WorkReceive
           parsed == parse_options(options, work_type)
       IN  \/ /\ ~fileOk
              /\ Finish("panic")
              /\ UNCHANGED <<options, worker_options, block_number>>
           \/ /\ fileOk
              /\ ~parsed.ok
              /\ options' = parsed.options
              /\ Finish("invalid_option")
              /\ UNCHANGED <<worker_options, block_number>>
           \/ /\ fileOk
              /\ parsed.ok
              /\ options' = parsed.options
              /\ worker_options' = parsed.worker_options
              /\ block_number' = IF direction = "Send" THEN 1 ELSE 0
              /\ pc' = IF direction = "Send" THEN "read" ELSE "recv"
              /\ UNCHANGED outcome
    /\ UNCHANGED <<direction, fileOk, fileLen, retry_cnt, pos, size, written>>
    /\ UNCHANGED observerVars
    /\ UNCHANGED pairVars

(* --------------------------- Worker: send loop ------------------------- *)

\* send_file lines 91-94: a new chunk is read and the retry counter reset
ReadChunk ==
    /\ pc = "read"
    /\ block_number <= MaxBlocks
    /\ \E io \in {"ok", "read_err"} :
          \/ /\ io = "read_err"
             /\ Finish("io_error")
             /\ UNCHANGED <<size, pos, retry_cnt, txCount, rxCount, blkSilent>>
          \/ /\ io = "ok"
             /\ size' = ReadSize(fileLen, pos, worker_options.blk_size)
             /\ pos' = pos + size'
             /\ retry_cnt' = 0
             /\ txCount' = 0
             /\ rxCount' = 0
             /\ blkSilent' = TRUE
             /\ pc' = "send"
             /\ UNCHANGED outcome
    /\ UNCHANGED <<direction, fileOk, fileLen, options, worker_options, block_number, written>>
    /\ UNCHANGED <<sent, allMatched, gotError, hsError, ackMatched>>
    /\ UNCHANGED pairVars

\* send_file line 96: Message::send_data(socket, block_number, chunk[..size])
SendData ==
    /\ pc = "send"
    /\ \E io \in {"ok", "send_err"} :
          \/ /\ io = "send_err"
             /\ Finish("io_error")
             /\ UNCHANGED <<sent, txCount>>
          \/ /\ io = "ok"
             /\ sent' = Logged(sent, Data(block_number, chunk))
             /\ txCount' = txCount + 1
             /\ pc' = "await"
             /\ UNCHANGED outcome
    /\ UNCHANGED <<direction, fileOk, fileLen, options, worker_options, block_number, retry_cnt, pos, size, written>>
    /\ UNCHANGED <<rxCount, blkSilent, allMatched, gotError, hsError, ackMatched>>
    /\ UNCHANGED pairVars

\* send_file lines 98-119: Message::recv returned resp
SendRecv ==
    /\ pc = "await"
    /\ \E resp \in SendResponses :
          LET r == SendMatch(block_number, retry_cnt, resp)
          IN  /\ (r.ctl = "continue" /\ r.retry_cnt = retry_cnt) => txCount - retry_cnt <= MaxMismatch
              /\ block_number' = r.block_number
              /\ retry_cnt' = r.retry_cnt
              /\ rxCount' = rxCount + 1
              /\ blkSilent' = (blkSilent /\ resp.type = "Err")
              /\ allMatched' = (allMatched /\ r.ctl = "break")
              /\ gotError' = (gotError \/ resp.type = "Error")
              /\ ackMatched' = (resp.type = "Ack" /\ resp.num = block_number)
              /\ \/ /\ r.ctl = "break"
                    /\ LastBlock(size, worker_options.blk_size)
                    /\ Finish("success")
                 \/ /\ r.ctl = "break"
                    /\ ~LastBlock(size, worker_options.blk_size)
                    /\ pc' = "read"
                    /\ UNCHANGED outcome
                 \/ /\ r.ctl = "continue"
                    /\ pc' = "send"
                    /\ UNCHANGED outcome
                 \/ /\ r.ctl \in {"peer_error", "timed_out"}
                    /\ Finish(r.ctl)
    /\ UNCHANGED <<direction, fileOk, fileLen, options, worker_options, pos, size, written>>
    /\ UNCHANGED <<sent, txCount, hsError>>
    /\ UNCHANGED pairVars

(* -------------------------- Worker: receive loop ----------------------- *)

\* receive_file lines 140-165: Message::recv_data returned resp; io is the
\* result of file.write when the block is accepted (a write that succeeds
\* writes the whole payload)
ReceiveStep(resp, io) ==
    LET r == RecvMatch(block_number, retry_cnt, resp)
    IN  /\ pc = "recv"
        /\ rxCount' = rxCount + 1
        /\ blkSilent' = (blkSilent /\ resp.type = "Err")
        /\ gotError' = (gotError \/ resp.type = "Error")
        /\ \/ /\ r.ctl = "break"
              /\ io = "write_err"
              /\ block_number' = r.block_number
              /\ Finish("io_error")
              /\ UNCHANGED <<retry_cnt, written, size>>
           \/ /\ r.ctl = "break"
              /\ io = "ok"
              /\ block_number' = r.block_number
              /\ written' = written \o resp.data
              /\ size' = Len(resp.data)
              /\ pc' = "ack"
              /\ UNCHANGED <<retry_cnt, outcome>>
           \/ /\ r.ctl = "continue"
              /\ io = "ok"
              /\ retry_cnt' = r.retry_cnt
              /\ UNCHANGED <<pc, outcome, block_number, written, size>>
           \/ /\ r.ctl \in {"peer_error", "timed_out"}
              /\ io = "ok"
              /\ retry_cnt' = r.retry_cnt
              /\ Finish(r.ctl)
              /\ UNCHANGED <<block_number, written, size>>
        /\ UNCHANGED <<direction, fileOk, fileLen, options, worker_options, pos>>
        /\ UNCHANGED <<sent, txCount, allMatched, hsError, ackMatched>>

\* receive_file lines 167-170: Message::send_ack, then the test for the last block
AckStep(io) ==
    /\ pc = "ack"
    /\ \/ /\ io = "send_err"
          /\ Finish("io_error")
          /\ UNCHANGED <<sent, retry_cnt, rxCount, blkSilent>>
       \/ /\ io = "ok"
          /\ LastBlock(size, worker_options.blk_size)
          /\ sent' = Append(sent, Ack(block_number))
          /\ Finish("success")
          /\ UNCHANGED <<retry_cnt, rxCount, blkSilent>>
       \/ /\ io = "ok"
          /\ ~LastBlock(size, worker_options.blk_size)
          /\ sent' = Append(sent, Ack(block_number))
          /\ retry_cnt' = 0
          /\ rxCount' = 0
          /\ blkSilent' = TRUE
          /\ pc' = "recv"
          /\ UNCHANGED outcome
    /\ UNCHANGED <<direction, fileOk, fileLen, options, worker_options, block_number, pos, size, written>>
    /\ UNCHANGED <<txCount, allMatched, gotError, hsError, ackMatched>>

\* payloads Message::recv_data(socket, blk_size) may return
Payloads(blk_size) == {Filler(n) : n \in 0..Min(blk_size, MaxOptVal)}

\* packets a peer may make Message::recv_data return to the receiving worker
ReceiveResponses(blk_size) == {RecvErr, ErrorPkt("DiskFull"), OptionAck(<<>>), Ack(0)} \cup {Data(n, d) : n \in PeerBlockNums, d \in Payloads(blk_size)}

ReceiveData ==
    /\ \E resp \in ReceiveResponses(worker_options.blk_size), io \in {"ok", "write_err"} :
          LET r == RecvMatch(block_number, retry_cnt, resp)
          IN  /\ (r.ctl = "continue" /\ r.retry_cnt = retry_cnt) => rxCount - retry_cnt < MaxMismatch
              /\ (r.ctl = "break" /\ ~LastBlock(Len(resp.data), worker_options.blk_size)) => block_number < MaxBlocks
              /\ ReceiveStep(resp, io)
    /\ UNCHANGED pairVars

SendAck ==
    /\ \E io \in {"ok", "send_err"} : AckStep(io)
    /\ UNCHANGED pairVars

Next ==
    \/ Accept
    \/ CheckResponse
    \/ OpenFile
    \/ ReadChunk
    \/ SendData
    \/ SendRecv
    \/ ReceiveData
    \/ SendAck

Spec == Init /\ [][Next]_vars

(* ------------------- SpecPair: receive loop and a peer ------------------ *)

\* option lists that negotiate a block size of at least one byte
PairOptionLists == {o \in OptionLists : parse_options(o, WorkReceive).ok /\ parse_options(o, WorkReceive).worker_options.blk_size >= 1}

\* The worker is at the top of receive_file's loop, as Worker::receive leaves
\* it after accept_request, File::create and parse_options; the peer has a
\* file of its own and is at the top of the send loop.
InitPair ==
    /\ direction = "Receive"
    /\ fileOk = TRUE
    /\ fileLen = 0
    /\ options \in PairOptionLists
    /\ pc = "recv"
    /\ outcome = "running"
    /\ worker_options = parse_options(options, WorkReceive).worker_options
    /\ block_number = 0
    /\ retry_cnt = 0
    /\ pos = 0
    /\ size = 0
    /\ written = <<>>
    /\ sent = accept_request(options, WorkReceive)
    /\ txCount = 0
    /\ rxCount = 0
    /\ blkSilent = TRUE
    /\ allMatched = TRUE
    /\ gotError = FALSE
    /\ hsError = FALSE
    /\ ackMatched = FALSE
    /\ \E len \in 0..MaxFileLen :
          peer = [pc |-> "read", outcome |-> "running", fileLen |-> len, block_number |-> 1, retry_cnt |-> 0, pos |-> 0, size |-> 0, txCount |-> 0]
    /\ toWorker = <<>>
    /\ toPeer = <<>>
    /\ acksLost = 0
    /\ faults = 0

peerChunk == SubSeq(FileContent(peer.fileLen), peer.pos - peer.size + 1, peer.pos)

\* the peer's send loop, lines 91-94 of send_file
PeerRead ==
    /\ peer.pc = "read"
    /\ LET sz == ReadSize(peer.fileLen, peer.pos, worker_options.blk_size)
       IN  peer' = [peer EXCEPT !.size = sz, !.pos = peer.pos + sz, !.retry_cnt = 0, !.txCount = 0, !.pc = "send"]
    /\ UNCHANGED <<workerVars, observerVars, toWorker, toPeer, acksLost, faults>>

\* the peer's send loop, line 96 of send_file
PeerSend ==
    /\ peer.pc = "send"
    /\ toWorker' = Append(toWorker, Data(peer.block_number, peerChunk))
    /\ peer' = [peer EXCEPT !.txCount = peer.txCount + 1, !.pc = "await"]
    /\ UNCHANGED <<workerVars, observerVars, toPeer, acksLost, faults>>

\* the peer's send loop, lines 98-119 of send_file, on resp
PeerStep(resp) ==
    LET r == SendMatch(peer.block_number, peer.retry_cnt, resp)
        to == CASE r.ctl = "break" -> IF LastBlock(peer.size, worker_options.blk_size) THEN "done" ELSE "read"
                [] r.ctl = "continue" -> "send"
                [] OTHER -> "done"
        how == CASE r.ctl = "break" -> IF LastBlock(peer.size, worker_options.blk_size) THEN "success" ELSE "running"
                 [] r.ctl = "continue" -> "running"
                 [] OTHER -> r.ctl
    IN  peer' = [peer EXCEPT !.block_number = r.block_number, !.retry_cnt = r.retry_cnt, !.pc = to, !.outcome = how]

\* the worker cannot send anything before it receives again
WorkerQuiet == outcome # "running" \/ (pc = "recv" /\ toWorker = <<>>)

\* the peer cannot send anything before it receives again
PeerQuiet == peer.outcome # "running" \/ (peer.pc = "await" /\ toPeer = <<>>)

\* the peer receives the packet at the head of its queue
PeerReceive ==
    /\ peer.pc = "await"
    /\ toPeer # <<>>
    /\ PeerStep(Head(toPeer))
    /\ toPeer' = Tail(toPeer)
    /\ UNCHANGED <<workerVars, observerVars, toWorker, acksLost, faults>>

\* the peer's receive times out: nothing is in flight to it and nothing will be
PeerTimeout ==
    /\ peer.pc = "await"
    /\ toPeer = <<>>
    /\ WorkerQuiet
    /\ PeerStep(RecvErr)
    /\ UNCHANGED <<workerVars, observerVars, toWorker, toPeer, acksLost, faults>>

\* the worker receives the packet at the head of its queue
PairReceive ==
    /\ toWorker # <<>>
    /\ ReceiveStep(Head(toWorker), "ok")
    /\ toWorker' = Tail(toWorker)
    /\ UNCHANGED <<peer, toPeer, acksLost, faults>>

\* the worker's receive times out: nothing is in flight to it and nothing will be
PairTimeout ==
    /\ toWorker = <<>>
    /\ PeerQuiet
    /\ ReceiveStep(RecvErr, "ok")
    /\ UNCHANGED pairVars

\* the worker's acknowledgment reaches the peer's queue
PairAck ==
    /\ AckStep("ok")
    /\ toPeer' = Append(toPeer, Ack(block_number))
    /\ UNCHANGED <<peer, toWorker, acksLost, faults>>

\* the worker's acknowledgment is lost on the way
PairAckLost ==
    /\ acksLost < MaxLostAcks
    /\ AckStep("ok")
    /\ acksLost' = acksLost + 1
    /\ UNCHANGED <<peer, toWorker, toPeer, faults>>

NextPair ==
    \/ PeerRead
    \/ PeerSend
    \/ PeerReceive
    \/ PeerTimeout
    \/ PairReceive
    \/ PairTimeout
    \/ PairAck
    \/ PairAckLost

SpecPair == InitPair /\ [][NextPair]_vars

(* ------------------------------ properties ----------------------------- *)

\* parse_options has returned Ok: the loop of send_file / receive_file is entered
Parsed == worker_options # NoWorkerOptions

\* the Data packets among the packets sent, each block once
DataLog == SelectSeq(sent, LAMBDA p : p.type = "Data")

\* the block of a file of len bytes that block i carries, for blk_size >= 1
ExpectedBlock(len, blk_size, i) ==
    SubSeq(FileContent(len), (i - 1) * blk_size + 1, Min(i * blk_size, len))

\* C1: Block framing of send_file. For a file of L bytes and a block size
\* B >= 1 the distinct Data blocks sent are numbered 1, 2, ... in order,
\* block i carrying bytes (i-1)*B+1 .. min(i*B, L) of the file: B bytes for
\* i <= L div B and L mod B bytes for the final block i = L div B + 1 (zero
\* bytes when B divides L). No block follows the final one, the loop ends
\* with success exactly when the final block has been acknowledged, and a
\* peer that acknowledges every block at once sees every block sent once.
C1_BlockFraming ==
    (direction = "Send" /\ Parsed /\ worker_options.blk_size >= 1) =>
        LET B == worker_options.blk_size
            full == fileLen \div B
        IN  /\ Len(DataLog) <= full + 1
            /\ \A i \in 1..Len(DataLog) :
                  /\ DataLog[i].num = i
                  /\ DataLog[i].data = ExpectedBlock(fileLen, B, i)
                  /\ Len(DataLog[i].data) = (IF i <= full THEN B ELSE fileLen % B)
            /\ block_number <= full + 2
            /\ (block_number = full + 2) <=> (outcome = "success")
            /\ outcome = "success" => Len(DataLog) = full + 1
            /\ allMatched => txCount <= 1 /\ retry_cnt = 0
            /\ (allMatched /\ pc = "done") => outcome \in {"success", "io_error"}

\* a file of two blocks and an empty third one sent to a peer that
\* acknowledged each block at once
C1_Witness ==
    /\ direction = "Send"
    /\ outcome = "success"
    /\ allMatched
    /\ fileLen = 2
    /\ worker_options.blk_size = 1
    /\ Len(DataLog) = 3
    /\ Len(DataLog[3].data) = 0

\* C2: Reliable delivery under loss. With the receive loop paired with a peer
\* that runs the send loop, over a channel that loses at most one
\* acknowledgment and nothing else, both sides end with success and the file
\* received is the file sent.
C2_ReliableUnderAckLoss ==
    (acksLost <= 1 /\ outcome # "running" /\ peer.outcome # "running") =>
        /\ outcome = "success"
        /\ peer.outcome = "success"
        /\ written = FileContent(peer.fileLen)

\* C3: Retry bound on a silent peer. While every receive for the current block
\* fails, send_file transmits the block at most MAX_RETRIES = 6 times and each
\* loop makes at most 6 receive attempts; the 6th failed receive ends the
\* transfer with the timed-out error, and that error is reached after exactly
\* 6 transmissions (send_file) and exactly 6 receive attempts (both loops).
C3_RetryBound ==
    (Parsed /\ blkSilent) =>
        /\ rxCount = retry_cnt
        /\ rxCount <= MAX_RETRIES
        /\ txCount <= MAX_RETRIES
        /\ direction = "Send" /\ pc = "await" => txCount = rxCount + 1
        /\ direction = "Send" /\ pc = "send" => txCount = rxCount
        /\ rxCount = MAX_RETRIES <=> outcome = "timed_out"
        /\ outcome = "timed_out" /\ direction = "Send" => txCount = MAX_RETRIES

\* the second block of a file sent six times to a peer gone silent
C3_Witness ==
    /\ direction = "Send"
    /\ outcome = "timed_out"
    /\ blkSilent
    /\ block_number = 2
    /\ txCount = MAX_RETRIES
    /\ rxCount = MAX_RETRIES

\* the receive loop giving up on a silent peer after six receive attempts
C3_WitnessReceive ==
    /\ direction = "Receive"
    /\ outcome = "timed_out"
    /\ blkSilent
    /\ rxCount = MAX_RETRIES

\* C4: In the send loop a mismatched Ack counts as a failed attempt, so that
\* the same Data block is transmitted at most MAX_RETRIES = 6 times.
C4_MismatchedAckCounts ==
    direction = "Send" => txCount <= MAX_RETRIES

\* C5: In the receive loop a Data packet with another block number than the
\* expected one counts as a failed attempt, so that the receiver makes at most
\* MAX_RETRIES = 6 receive attempts for one block.
C5_MismatchedDataCounts ==
    direction = "Receive" => rxCount <= MAX_RETRIES

\* C6: Negotiation rejection before any I/O. A transfer that fails with the
\* invalid-option error (a Timeout option of value 0) has sent no packet.
C6_RejectedBeforeIO ==
    outcome = "invalid_option" => sent = <<>>

\* C7: TransferSize in the option-acknowledgment. The TransferSize value of
\* the OptionAck a sending worker emits is the byte length of the local file.
C7_OackTransferSize ==
    direction = "Send" =>
        \A i \in 1..Len(sent) :
            sent[i].type = "OptionAck" =>
                \A j \in 1..Len(sent[i].opts) :
                    sent[i].opts[j].option = "TransferSize" => sent[i].opts[j].value = fileLen

\* C8: Handshake confirmation on the sender side. Once the worker has sent
\* Error(IllegalOperation) in reply to a first Ack that is not Ack(0), the
\* transfer does not succeed and no Data packet follows the Error packet.
C8_BadOackAborts ==
    \A i \in 1..Len(sent) :
        sent[i].type = "Error" =>
            /\ outcome # "success"
            /\ \A j \in (i + 1)..Len(sent) : sent[j].type # "Data"

\* C9: A peer Error packet received by check_response aborts the transfer:
\* the worker sends no Data packet afterwards and does not succeed.
C9_HandshakeErrorAborts ==
    hsError =>
        /\ outcome # "success"
        /\ DataLog = <<>>

\* C10: A peer Error packet received inside the send loop or the receive loop
\* aborts the transfer at once, whatever the attempt counter: the outcome is
\* the peer's error, and no step that sends a packet, receives or reads is
\* possible afterwards.
C10_PeerErrorAborts ==
    gotError =>
        /\ outcome = "peer_error"
        /\ pc = "done"
        /\ ~ENABLED (ReadChunk \/ SendData \/ SendRecv \/ ReceiveData \/ SendAck)

\* an Error packet received after five failed attempts on the same block
C10_Witness ==
    /\ gotError
    /\ retry_cnt = MAX_RETRIES - 1
    /\ direction = "Send"
    /\ block_number = 2

\* the same in the receive loop
C10_WitnessReceive ==
    /\ gotError
    /\ retry_cnt = MAX_RETRIES - 1
    /\ direction = "Receive"
    /\ block_number = 1

(* --------------- SpecWrap: the paired loops at block 65535 -------------- *)

\* the last block acknowledged before the state SpecWrap starts in
WrapStart == U16 - 2

\* block numbers of the Data packets that reach the worker out of turn
WrapNums == {U16 - 2, U16 - 1, 0, 1, 2}

\* the block sizes of the transfers taken to the wrap
WrapOptionLists == {<<[option |-> "BlockSize", value |-> v]>> : v \in 1..MaxOptVal}

\* The paired loops of SpecPair after WrapStart full blocks were sent, written
\* and acknowledged without loss. The bytes of those blocks are left out of
\* the state: written, the peer's pos and the peer's fileLen count the bytes
\* that follow them, of which the peer's file has up to MaxFileLen.
InitWrap ==
    /\ direction = "Receive"
    /\ fileOk = TRUE
    /\ fileLen = 0
    /\ options \in WrapOptionLists
    /\ pc = "recv"
    /\ outcome = "running"
    /\ worker_options = parse_options(options, WorkReceive).worker_options
    /\ block_number = WrapStart
    /\ retry_cnt = 0
    /\ pos = 0
    /\ size = worker_options.blk_size
    /\ written = <<>>
    /\ sent = <<Ack(WrapStart)>>
    /\ txCount = 0
    /\ rxCount = 0
    /\ blkSilent = TRUE
    /\ allMatched = TRUE
    /\ gotError = FALSE
    /\ hsError = FALSE
    /\ ackMatched = FALSE
    /\ \E more \in 0..MaxFileLen :
          peer = [pc |-> "read", outcome |-> "running", fileLen |-> more, block_number |-> WrapStart + 1, retry_cnt |-> 0, pos |-> 0, size |-> worker_options.blk_size, txCount |-> 0]
    /\ toWorker = <<>>
    /\ toPeer = <<>>
    /\ acksLost = 0
    /\ faults = 0

\* a Data packet with any block number near the wrap reaches the worker whose
\* last accepted block is 65535: a datagram duplicated or held back by the
\* network
WrapStray ==
    /\ block_number = U16 - 1
    /\ \E n \in WrapNums :
          LET resp == Data(n, Filler(worker_options.blk_size))
              r == RecvMatch(block_number, retry_cnt, resp)
          IN  /\ r.ctl = "continue" => rxCount - retry_cnt < MaxMismatch
              /\ r.ctl = "break" => Len(written) < peer.fileLen
              /\ ReceiveStep(resp, "ok")
    /\ UNCHANGED pairVars

NextWrap ==
    \/ PeerRead
    \/ PeerSend
    \/ PeerReceive
    \/ PeerTimeout
    \/ PairReceive
    \/ PairTimeout
    \/ PairAck
    \/ PairAckLost
    \/ WrapStray

SpecWrap == InitWrap /\ [][NextWrap]_vars

\* the number after block number n, for 16-bit block numbers
NextBlockNumber(n) == IF n = 65535 THEN 0 ELSE n + 1

\* the place in the peer's file of the block a Data packet of the peer carries
BlockIndex(p) ==
    IF p.data = <<>> THEN WrapStart + peer.fileLen \div worker_options.blk_size + 1
    ELSE WrapStart + (p.data[1] - 1) \div worker_options.blk_size + 1

\* C11: Block-number wraparound. Block numbers stay within 16 bits; the
\* number of the block the sender sends and the number of the block the
\* receiver accepted last change only to the next number modulo 65536, so to
\* 0 after 65535; the Data packet for the i-th block of the file is numbered
\* i mod 65536; a receiver whose last accepted block is 65535 accepts Data
\* numbered 0 and no other number, whatever numbers reach it.
C11_Wraparound ==
    [][/\ block_number' \in 0..65535
       /\ peer'.block_number \in 0..65535
       /\ block_number' # block_number => block_number' = NextBlockNumber(block_number)
       /\ peer'.block_number # peer.block_number => peer'.block_number = NextBlockNumber(peer.block_number)
       /\ \A i \in 1..Len(toWorker') : toWorker'[i].num = BlockIndex(toWorker'[i]) % 65536
       /\ (pc = "recv" /\ pc' = "ack") => sent' = sent /\ block_number' = NextBlockNumber(block_number)
       /\ (pc = "ack" /\ pc' # "ack") => Last(sent').num = block_number]_vars

\* the peer's block 65536 went out as Data(0), was accepted after block 65535
\* and acknowledged with Ack(0), and the peer moved on to block number 1
C11_Witness ==
    /\ block_number = 0
    /\ Len(written) = 2 * worker_options.blk_size
    /\ written = FileContent(Len(written))
    /\ Last(sent) = Ack(0)
    /\ peer.block_number = 1
    /\ peer.pos > 2 * worker_options.blk_size

\* the data loops are running: a chunk is read, sent or awaited (send_file),
\* or a block is awaited or acknowledged (receive_file)
InDataLoop == pc \in {"read", "send", "await", "recv", "ack"}

\* C12: Negotiated block size is positive. Whenever negotiation succeeded
\* and the send loop or the receive loop runs, the block size it uses is at
\* least 1.
C12_BlockSizePositive == (Parsed /\ InDataLoop) => worker_options.blk_size >= 1

\* the send loop of send_file is running
InSendLoop == direction = "Send" /\ pc \in {"read", "send", "await"}

\* C13: Stop-and-wait on the sender. In the send loop the block number
\* changes only when an Ack numbered as the block in flight was received, and
\* then to the next number modulo 65536; whatever else was received (a
\* failed or timed-out receive, an Ack with another number, any other
\* packet) leaves the block number and the chunk being sent as they are; and
\* a Data block that follows another on the wire is numbered one more than it
\* and goes out only after the matching Ack of that one was the last thing
\* received.
C13_StopAndWait ==
    [][InSendLoop =>
          /\ block_number' # block_number =>
                /\ pc = "await"
                /\ ackMatched'
                /\ block_number' = NextBlockNumber(block_number)
          /\ (pc = "await" /\ ~ackMatched') =>
                /\ block_number' = block_number
                /\ pos' = pos
                /\ size' = size
                /\ pc' # "read"
          /\ (pc = "await" /\ ackMatched') => block_number' = NextBlockNumber(block_number)
          /\ (Len(DataLog') > Len(DataLog) /\ DataLog # <<>>) =>
                /\ ackMatched
                /\ rxCount = 0
                /\ Last(DataLog').num = NextBlockNumber(Last(DataLog).num)]_vars

\* block 1 was acknowledged, and block 2 is about to be sent again after a
\* response that was not its acknowledgment
C13_Witness ==
    /\ direction = "Send"
    /\ pc = "send"
    /\ block_number = 2
    /\ ~ackMatched
    /\ rxCount > 0
    /\ Last(sent).num = 2

\* the receive loop of receive_file is running
InReceiveLoop == direction = "Receive" /\ pc \in {"recv", "ack"}

\* C14: In-order acceptance on the receiver. The receive loop starts with 0
\* as the last accepted block; of all the packets that can reach it, it
\* accepts exactly the Data packets numbered last accepted + 1 modulo 65536;
\* the file changes only by the payload of an accepted block being
\* appended, and with it the last accepted block number goes up by one, so
\* the blocks written are numbered 1, 2, 3, ... without gap or repeat; a
\* packet that is not accepted leaves the file and the last accepted block
\* number as they are.
C14_InOrderAcceptance ==
    [][/\ (direction = "Receive" /\ pc = "open" /\ pc' = "recv") =>
             block_number' = 0 /\ written' = <<>>
       /\ InReceiveLoop =>
             /\ pc = "recv" =>
                   \A resp \in ReceiveResponses(worker_options.blk_size) :
                      RecvMatch(block_number, retry_cnt, resp).ctl = "break"
                         <=> (resp.type = "Data" /\ resp.num = NextBlockNumber(block_number))
             /\ written' # written =>
                   /\ pc = "recv" /\ pc' = "ack"
                   /\ \E d \in Payloads(worker_options.blk_size) : written' = written \o d
             /\ block_number' # block_number =>
                   /\ pc = "recv" /\ (pc' = "ack" \/ outcome' = "io_error")
                   /\ block_number' = NextBlockNumber(block_number)
             /\ (pc = "recv" /\ pc' = "ack") => block_number' = NextBlockNumber(block_number)
             /\ (pc = "recv" /\ pc' # "ack" /\ outcome' # "io_error") =>
                   block_number' = block_number /\ written' = written
             /\ Len(written') <= block_number' * worker_options.blk_size]_vars

\* blocks 1 and 2 were accepted and written, and a packet that reached the
\* loop waiting for block 3 was not accepted
C14_Witness ==
    /\ direction = "Receive"
    /\ pc = "recv"
    /\ block_number = 2
    /\ rxCount > retry_cnt
    /\ Len(written) = 2

\* how many packets of a type the worker has sent
SentCount(type) == Len(SelectSeq(sent, LAMBDA p : p.type = type))

\* C15: Initial handshake (accept). Nothing is sent before accept_request.
\* With a non-empty option list the first packet sent is the OptionAck of
\* that list, in both directions, it is the only OptionAck, and no Ack(0) is
\* sent. With an empty list a receiving worker first sends Ack(0), once, and
\* no OptionAck; a sending worker has sent nothing when it first receives
\* from the peer, and never sends an OptionAck or an Ack.
C15_Handshake ==
    /\ pc = "start" => sent = <<>>
    /\ Len(options) > 0 =>
          /\ sent # <<>> => sent[1].type = "OptionAck" /\ Len(sent[1].opts) = Len(options)
          /\ pc \in {"check", "open"} => sent[1] = OptionAck(options)
          /\ SentCount("OptionAck") <= 1
          /\ Ack(0) \notin {sent[i] : i \in 1..Len(sent)}
    /\ (Len(options) = 0 /\ direction = "Receive") =>
          /\ sent # <<>> => sent[1] = Ack(0)
          /\ pc = "open" => sent = <<Ack(0)>>
          /\ Len(SelectSeq(sent, LAMBDA p : p = Ack(0))) <= 1
          /\ SentCount("OptionAck") = 0
    /\ (Len(options) = 0 /\ direction = "Send") =>
          /\ pc = "check" => sent = <<>>
          /\ SentCount("OptionAck") = 0
          /\ SentCount("Ack") = 0

\* a write request with options was answered with an OptionAck and the
\* transfer that followed completed
C15_Witness ==
    /\ direction = "Receive"
    /\ Len(options) > 0
    /\ outcome = "success"
    /\ sent[1].type = "OptionAck"
    /\ Len(sent) > 1

(* ------------------- parse_options on longer option lists -------------- *)

\* option lists of up to MaxOpts + 1 options: options that repeat or follow
\* one another
ParseOptionLists == UNION {[1..n -> TransferOption] : n \in 0..(MaxOpts + 1)}

\* The worker on entry to send_file or receive_file: accept_request has sent
\* its packet for the option list, which parse_options has not touched yet.
InitParse ==
    /\ direction \in {"Send", "Receive"}
    /\ fileOk \in BOOLEAN
    /\ fileLen \in 0..MaxFileLen
    /\ direction = "Receive" => fileLen = 0
    /\ direction = "Send" => fileOk
    /\ options \in ParseOptionLists
    /\ pc = "open"
    /\ outcome = "running"
    /\ worker_options = NoWorkerOptions
    /\ block_number = 0
    /\ retry_cnt = 0
    /\ pos = 0
    /\ size = 0
    /\ written = <<>>
    /\ sent = accept_request(options, IF direction = "Send" THEN WorkSend(fileLen) ELSE WorkReceive)
    /\ txCount = 0
    /\ rxCount = 0
    /\ blkSilent = TRUE
    /\ allMatched = TRUE
    /\ gotError = FALSE
    /\ hsError = FALSE
    /\ ackMatched = FALSE
    /\ peer = NoPeer
    /\ toWorker = <<>>
    /\ toPeer = <<>>
    /\ acksLost = 0
    /\ faults = 0

NextParse == OpenFile

SpecParse == InitParse /\ [][NextParse]_vars

\* the option list as the peer requested it: what accept_request acknowledged
RequestedOptions == IF sent # <<>> /\ sent[1].type = "OptionAck" THEN sent[1].opts ELSE <<>>

\* the places of the options of a type in a list
PlacesOf(opts, type) == {i \in 1..Len(opts) : opts[i].option = type}

\* the value of the last option of a type in a list, or default when the
\* list has none
LastValue(opts, type, default) ==
    IF PlacesOf(opts, type) = {} THEN default
    ELSE opts[CHOOSE i \in PlacesOf(opts, type) : \A j \in PlacesOf(opts, type) : j <= i].value

\* parse_options has run on the list (the file was there)
ParseRan == pc # "open" /\ outcome # "panic"

\* C16: Option negotiation result. parse_options fails exactly when the
\* list has a Timeout option of value 0. When it succeeds, block_size is the
\* value of the last BlockSize option, or 512 without one; timeout is the
\* value of the last Timeout option, or 5 without one; when sending,
\* transfer_size is 0 and the list is the requested list with the value of
\* every TransferSize option replaced by the length of the local file; when
\* receiving, transfer_size is the value of the last TransferSize option, or
\* 0 without one, and the list is unchanged. Failing or not, the list keeps
\* its length and its option types, and its BlockSize and Timeout entries
\* are not modified.
C16_ParseResult ==
    ParseRan =>
       /\ outcome = "invalid_option" <=> (\E i \in PlacesOf(RequestedOptions, "Timeout") : RequestedOptions[i].value = 0)
       /\ outcome # "invalid_option" =>
             /\ worker_options.blk_size = LastValue(RequestedOptions, "BlockSize", 512)
             /\ worker_options.timeout = LastValue(RequestedOptions, "Timeout", 5)
             /\ direction = "Send" =>
                   /\ worker_options.t_size = 0
                   /\ \A i \in PlacesOf(RequestedOptions, "TransferSize") : options[i].value = fileLen
             /\ direction = "Receive" =>
                   /\ worker_options.t_size = LastValue(RequestedOptions, "TransferSize", 0)
                   /\ options = RequestedOptions
       /\ Len(options) = Len(RequestedOptions)
       /\ \A i \in 1..Len(options) :
             /\ options[i].option = RequestedOptions[i].option
             /\ options[i].option \in {"BlockSize", "Timeout"} => options[i] = RequestedOptions[i]

\* a read request for a file of 3 bytes asked for TransferSize 0 and
\* BlockSize 1: the list now says TransferSize 3, and blocks are of 1 byte
C16_Witness ==
    /\ direction = "Send"
    /\ pc = "read"
    /\ fileLen = 3
    /\ RequestedOptions = <<[option |-> "TransferSize", value |-> 0], [option |-> "BlockSize", value |-> 1]>>
    /\ options = <<[option |-> "TransferSize", value |-> 3], [option |-> "BlockSize", value |-> 1]>>
    /\ worker_options = [blk_size |-> 1, t_size |-> 0, timeout |-> 5]

\* the packets a receiving worker sent after the one of accept_request
LoopAcks == IF sent = <<>> THEN <<>> ELSE Tail(sent)

\* the packets of the receive loop are Ack(1), Ack(2), ... in this order
AcksInOrder == \A i \in 1..Len(LoopAcks) : LoopAcks[i] = Ack(i)

\* C17: Receive-loop acknowledgment and completion. The packets the receive
\* loop sends are one Ack per accepted block, numbered as the block, in the
\* order of acceptance; an Ack goes out only for the block accepted last,
\* with its payload already in the file, and the file is not touched by the
\* step that sends it; the loop ends in success exactly on sending the Ack
\* of a block whose payload is shorter than block_size, that Ack being the
\* last packet sent; after a block of full size it goes on receiving; and
\* once it has ended nothing is received any more.
C17_AckAndCompletion ==
    [][(direction = "Receive" /\ Parsed) =>
          /\ AcksInOrder'
          /\ Len(LoopAcks') <= block_number'
          /\ pc' = "recv" => Len(LoopAcks') = block_number'
          /\ pc' = "ack" => Len(LoopAcks') = block_number' - 1
          /\ sent' # sent =>
                /\ pc = "ack"
                /\ sent' = Append(sent, Ack(block_number))
                /\ written' = written
                /\ Len(written) >= size
          /\ (pc = "ack" /\ sent' # sent) =>
                /\ size < worker_options.blk_size <=> outcome' = "success"
                /\ size >= worker_options.blk_size <=> pc' = "recv"
          /\ outcome' = "success" =>
                /\ pc = "ack"
                /\ Last(sent') = Ack(block_number')
                /\ Len(LoopAcks') = block_number'
                /\ size' < worker_options.blk_size
          /\ pc = "done" => rxCount' = rxCount /\ sent' = sent]_vars

\* two blocks were accepted, the second shorter than the block size, and
\* the loop ended after Ack(2)
C17_Witness ==
    /\ direction = "Receive"
    /\ outcome = "success"
    /\ block_number = 2
    /\ sent[Len(sent) - 1] = Ack(1)
    /\ Last(sent) = Ack(2)
    /\ size < worker_options.blk_size
    /\ written # <<>>

\* C18: Local file errors are reported, not fatal. A worker whose file
\* cannot be opened or created never ends in a panic, and a receiving worker
\* whose file cannot be created has sent the peer nothing.
C18_FileErrorReported ==
    /\ outcome # "panic"
    /\ (direction = "Receive" /\ ~fileOk) => sent = <<>>

(* ------------ The paired loops over a channel with faults -------------- *)

\* faults of the channel in one transfer: packets lost, packets duplicated,
\* and receives that time out while the packet they wait for is on its way
MaxFaults == 2

\* the block sizes of the transfers over the faulty channel: the default and
\* the small ones
NetOptionLists == {<<>>} \cup {<<[option |-> "BlockSize", value |-> v]>> : v \in 1..MaxOptVal}

\* as InitPair: the worker at the top of receive_file's loop, the peer at the
\* top of send_file's loop
InitNet == InitPair /\ options \in NetOptionLists

\* seq without its i-th element
RemoveAt(seq, i) == SubSeq(seq, 1, i - 1) \o SubSeq(seq, i + 1, Len(seq))

\* seq with its i-th element twice
RepeatAt(seq, i) == SubSeq(seq, 1, i) \o SubSeq(seq, i, Len(seq))

\* the channel loses a packet in flight, in either direction
NetLose ==
    /\ faults < MaxFaults
    /\ \/ \E i \in 1..Len(toWorker) : toWorker' = RemoveAt(toWorker, i) /\ UNCHANGED toPeer
       \/ \E i \in 1..Len(toPeer) : toPeer' = RemoveAt(toPeer, i) /\ UNCHANGED toWorker
    /\ faults' = faults + 1
    /\ UNCHANGED <<workerVars, observerVars, peer, acksLost>>

\* the channel duplicates a packet in flight, in either direction
NetDuplicate ==
    /\ faults < MaxFaults
    /\ \/ \E i \in 1..Len(toWorker) : toWorker' = RepeatAt(toWorker, i) /\ UNCHANGED toPeer
       \/ \E i \in 1..Len(toPeer) : toPeer' = RepeatAt(toPeer, i) /\ UNCHANGED toWorker
    /\ faults' = faults + 1
    /\ UNCHANGED <<workerVars, observerVars, peer, acksLost>>

\* Message::recv of the peer's send loop times out (line 98, the Err of the
\* arm of line 108): either nothing is or will be on its way, or what is on
\* its way is delayed beyond the timeout, a fault of the channel. A receive
\* is only made inside the retry loop, with retries left.
NetTimeoutPeer ==
    /\ peer.pc = "await"
    /\ peer.retry_cnt < MAX_RETRIES
    /\ LET due == toPeer = <<>> /\ WorkerQuiet
       IN  /\ due \/ faults < MaxFaults
           /\ faults' = IF due THEN faults ELSE faults + 1
    /\ PeerStep(RecvErr)
    /\ UNCHANGED <<workerVars, observerVars, toWorker, toPeer, acksLost>>

\* Message::recv_data of the worker's receive loop times out (line 140, the
\* arm of line 155), likewise
NetTimeoutWorker ==
    /\ pc = "recv"
    /\ retry_cnt < MAX_RETRIES
    /\ LET due == toWorker = <<>> /\ PeerQuiet
       IN  /\ due \/ faults < MaxFaults
           /\ faults' = IF due THEN faults ELSE faults + 1
    /\ ReceiveStep(RecvErr, "ok")
    /\ UNCHANGED <<peer, toWorker, toPeer, acksLost>>

NextNet ==
    \/ PeerRead
    \/ PeerSend
    \/ PeerReceive
    \/ PairReceive
    \/ PairAck
    \/ NetTimeoutPeer
    \/ NetTimeoutWorker
    \/ NetLose
    \/ NetDuplicate

\* every send completes and every blocking receive returns a packet or times
\* out: a side that can take a step takes one
SpecNet == InitNet /\ [][NextNet]_vars /\ WF_vars(NextNet)

\* the outcomes of a loop that has ended without a local I/O failure
EndedOutcomes == {"success", "peer_error", "timed_out"}

SenderFile == FileContent(peer.fileLen)

\* C20: Agreement on success. Over a channel that loses and duplicates
\* packets, and delays them, the bytes the receive loop has written are at
\* every moment the first bytes of the sender's file, and when the send loop
\* has ended with success they are the whole file: every block once, in
\* order.
C20_Agreement ==
    /\ Len(written) <= peer.fileLen
    /\ written = SubSeq(SenderFile, 1, Len(written))
    /\ peer.outcome = "success" => written = SenderFile

\* a file of three blocks arrived whole although the channel spent all its
\* faults, and the send loop ended with success
C20_Witness ==
    /\ peer.outcome = "success"
    /\ faults = MaxFaults
    /\ peer.fileLen = 3
    /\ worker_options.blk_size = 2
    /\ written = <<1, 2, 3>>
    /\ block_number = 2

====
